---- MODULE Spec2Model ----
(***************************************************************************)
(* Model of python/tank/pipelineconfig.py: the two factory functions       *)
(* from_path and from_entity, the TANK_CURRENT_PC clean-up, the            *)
(* install_location.yml lookup, the StorageConfigurationMapping file and   *)
(* the constructor of PipelineConfiguration with its roots.yml.            *)
(*                                                                         *)
(* A string is a sequence of tokens.  A token is a path separator ("/" or  *)
(* "\"), a space, or a name: a run of characters holding none of these.    *)
(* Python's None is the one-token string NONE, which is no path.  An       *)
(* optional value that may also be an empty list is <<>> for None and      *)
(* <<v>> for v.                                                            *)
(***************************************************************************)
EXTENDS Integers, Sequences, FiniteSets, TLC

VARIABLES
    platform,     \* sys.platform
    environ,      \* os.environ["TANK_CURRENT_PC"]: <<>> when unset, <<s>> when set
    disk,         \* the directories that exist, as sequences of names
    pcMarker,     \* the directories holding config/core/pipeline_configuration.yml
    mapFiles,     \* directory -> content of its tank/config/<back mapping file>
    installLoc,   \* directory -> content of its config/core/install_location.yml
    pcFiles,      \* directory -> the other files a configuration is constructed from
    sgPCs,        \* the tracking service's PipelineConfiguration entities, in service order
    sgLinks,      \* the tracking service's other entities: [type, id] -> project link
    sgUser,       \* login.get_shotgun_user: <<>> or <<[id |-> n]>>
    call,         \* the last call made
    result        \* what the last call returned or raised

vars == <<platform, environ, disk, pcMarker, mapFiles, installLoc, pcFiles,
          sgPCs, sgLinks, sgUser, call, result>>

world == <<platform, environ, disk, pcMarker, mapFiles, installLoc, pcFiles,
           sgPCs, sgLinks, sgUser>>

----------------------------------------------------------------------------
(* Bounds of the model *)

\* user ids known to the tracking service are 1..MaxUserId
MaxUserId == 2
\* a back-mapping file holds at most MaxRows rows in the storage mapping runs
MaxRows == 2
\* a path of roots.yml ends with at most MaxTrailing separators
MaxTrailing == 2

----------------------------------------------------------------------------
(* Strings and python values *)

NONE == <<"None">>

IsNone(o) == o = <<>>
Val(o) == o[1]
Some(v) == <<v>>

Range(s) == {s[i] : i \in DOMAIN s}

endswith(s, c) == Len(s) > 0 /\ s[Len(s)] = c

\* s[:-1]
DropLast(s) == SubSeq(s, 1, Len(s) - 1)

Platforms == {"linux2", "win32", "darwin"}

platform_lookup ==
    [linux2 |-> "linux_path", win32 |-> "windows_path", darwin |-> "mac_path"]

\* os.path.sep
Sep(pl) == IF pl = "win32" THEN "\\" ELSE "/"

\* the characters os.path takes as separators: ntpath takes both
Seps(pl) == IF pl = "win32" THEN {"\\", "/"} ELSE {"/"}

RECURSIVE RStrip(_, _)
RStrip(s, chars) ==
    IF Len(s) > 0 /\ s[Len(s)] \in chars THEN RStrip(DropLast(s), chars) ELSE s

\* the string of a directory on a platform: /proj/shot or \proj\shot
Str(pl, d) ==
    IF d = <<>> THEN <<Sep(pl)>>
    ELSE [i \in 1..(2 * Len(d)) |-> IF i % 2 = 1 THEN Sep(pl) ELSE d[i \div 2]]

----------------------------------------------------------------------------
(* The file system *)

Names == {"proj", "shot", "pcA", "pcB", "lnkA", "new", "gone"}

ROOT == <<>>
PROJ == <<"proj">>
SHOT == <<"proj", "shot">>
PCA == <<"pcA">>
PCB == <<"pcB">>

Dirs == {ROOT, PROJ, SHOT, PCA, PCB}

\* a key that is no directory
NoDir == <<"?">>

\* The components of a string, split at the separators; a component is a
\* sequence of tokens and empty components are dropped, as the operating
\* system does when it looks a path up.
RECURSIVE Components(_, _, _)
Components(pl, s, cur) ==
    IF s = <<>> THEN (IF cur = <<>> THEN <<>> ELSE <<cur>>)
    ELSE IF Head(s) \in Seps(pl)
         THEN (IF cur = <<>> THEN <<>> ELSE <<cur>>) \o Components(pl, Tail(s), <<>>)
         ELSE Components(pl, Tail(s), Append(cur, Head(s)))

\* The directory an absolute string names: every component must be one
\* name. A component such as "pcA " or, off windows, "pcA\" is another name,
\* which names nothing here.
FsKey(pl, s) ==
    LET cs == Components(pl, s, <<>>) IN
    IF s # <<>> /\ s # NONE /\ Head(s) \in Seps(pl)
       /\ \A i \in DOMAIN cs : Len(cs[i]) = 1 /\ cs[i][1] \in Names
    THEN [i \in DOMAIN cs |-> cs[i][1]]
    ELSE NoDir

\* os.path.exists
path_exists(s) == FsKey(platform, s) \in disk

\* os.path.abspath of an absolute string: duplicate and trailing separators
\* go, and ntpath turns "/" into "\"
abspath(pl, s) ==
    LET cs == Components(pl, s, <<>>)
        flat == [i \in 1..(2 * Len(cs)) |->
                    IF i % 2 = 1 THEN <<Sep(pl)>> ELSE cs[i \div 2]]
        RECURSIVE Cat(_)
        Cat(q) == IF q = <<>> THEN <<>> ELSE Head(q) \o Cat(Tail(q))
    IN IF cs = <<>> THEN <<Sep(pl)>> ELSE Cat(flat)

\* os.path.dirname: cut after the last separator, then strip the separators
\* the head ends with unless it is made of separators only
dirname(pl, s) ==
    LET RECURSIVE CutTail(_)
        CutTail(h) == IF Len(h) > 0 /\ h[Len(h)] \notin Seps(pl)
                      THEN CutTail(DropLast(h)) ELSE h
        head == CutTail(s)
        stripped == RStrip(head, Seps(pl))
    IN IF stripped = <<>> THEN head ELSE stripped

----------------------------------------------------------------------------
(* Files *)

\* A yaml file: missing, unparsable ("corrupt"), an empty document that
\* loads as None ("empty"), or a document that loads as data ("data").
MissingFile == [kind |-> "missing", data |-> <<>>]
CorruptFile == [kind |-> "corrupt", data |-> <<>>]
EmptyFile == [kind |-> "empty", data |-> <<>>]
DataFile(d) == [kind |-> "data", data |-> d]

\* the file <s>/tank/config/<constants.CONFIG_BACK_MAPPING_FILE>
config_file(s) ==
    IF FsKey(platform, s) \in DOMAIN mapFiles
    THEN mapFiles[FsKey(platform, s)] ELSE MissingFile

\* os.path.exists(os.path.join(path, "config", "core", "pipeline_configuration.yml"))
pc_config_exists(s) == FsKey(platform, s) \in pcMarker

\* one row of the back-mapping file
Row(mac, win, linux) == [darwin |-> mac, win32 |-> win, linux2 |-> linux]

\* the row a configuration installed in directory d on every platform gets
RowOf(d) == Row(Str("darwin", d), Str("win32", d), Str("linux2", d))

----------------------------------------------------------------------------
(* What a call returns or raises *)

\* status is "ok" with the root handed to PipelineConfiguration(), or the
\* error raised; sg tells whether the tracking service was queried, marker
\* is the directory whose back-mapping file was read (NONE when none was)
\* and cands is existing_matching_pcs.
Outcome(status, root, sg, marker, cands) ==
    [status |-> status, root |-> root, sg |-> sg, marker |-> marker, cands |-> cands]

\* PipelineConfiguration.__init__ keeps the path it is given as the root
PipelineConfiguration(pipeline_configuration_path, sg, marker, cands) ==
    Outcome("ok", pipeline_configuration_path, sg, marker, cands)

Raise(status, sg, marker, cands) == Outcome(status, NONE, sg, marker, cands)

----------------------------------------------------------------------------
(* The tracking service *)

\* a service that returns every entity, whatever the filter
sg_find_unfiltered(field, values) == sgPCs

\* sg.find(PipelineConfiguration, [[field, "in", v1, v2, ...]], ...): the
\* entities whose field is one of the values, in service order
sg_find_in(field, values) ==
    LET Hit(e) == e[field] \in Range(values) IN SelectSeq(sgPCs, Hit)

\* sg.find(PipelineConfiguration, [["project", "is", proj]], ...)
sg_find_project(proj) ==
    LET Hit(e) == e.project = proj.id IN SelectSeq(sgPCs, Hit)

----------------------------------------------------------------------------
(* from_path *)

\* the clean-up with the test for a trailing space left out
path_curr_pc_path_keeps_space(raw) ==
    IF endswith(raw, "\\") THEN DropLast(raw) ELSE raw

\* the clean-up of os.environ["TANK_CURRENT_PC"] in from_path
path_curr_pc_path(raw) ==
    LET a == IF endswith(raw, " ") THEN DropLast(raw) ELSE raw
    IN IF endswith(a, "\\") THEN DropLast(a) ELSE a

\* the path worked on with the parent of a path that does not exist never
\* tried
effective_path_no_parent(path) ==
    LET p == abspath(platform, path)
    IN IF path_exists(p) THEN p ELSE NONE

\* the path from_path works on: the absolute path, or its parent when the
\* path does not exist, or NONE when neither does
effective_path(path) ==
    LET p == abspath(platform, path)
        parent_path == dirname(platform, p)
    IN IF path_exists(p) THEN p
       ELSE IF path_exists(parent_path) THEN parent_path
       ELSE NONE

\* the walk up from cur_path to the first directory with a back-mapping file
RECURSIVE walk_up(_)
walk_up(cur_path) ==
    IF config_file(cur_path).kind # "missing" THEN cur_path
    ELSE LET parent_path == dirname(platform, cur_path)
         IN IF parent_path = cur_path THEN NONE ELSE walk_up(parent_path)

\* the test with the user's id never looked up in the users of the entity
is_matching_pc_any_user(p, current_user) ==
    \/ IsNone(p.users)
    \/ Len(Val(p.users)) = 0
    \/ ~IsNone(current_user)

\* a configuration entity the current user may use
is_matching_pc(p, current_user) ==
    \/ IsNone(p.users)
    \/ Len(Val(p.users)) = 0
    \/ /\ ~IsNone(current_user)
       /\ Val(current_user).id \in {Val(p.users)[i].id : i \in DOMAIN Val(p.users)}

\* the branch taken when TANK_CURRENT_PC is set
resolve_from_env(raw, existing_matching_pcs, marker) ==
    LET curr_pc_path == path_curr_pc_path(raw)
    IN IF curr_pc_path \in Range(existing_matching_pcs)
       THEN PipelineConfiguration(curr_pc_path, FALSE, marker, existing_matching_pcs)
       ELSE Raise("ConfigurationMismatch", FALSE, marker, existing_matching_pcs)

\* the branch that asks the tracking service
resolve_from_shotgun(existing_matching_pcs, marker) ==
    LET field == platform_lookup[platform]
        pipe_configs == sg_find_in(field, existing_matching_pcs)
        current_user == sgUser
        Match(p) == is_matching_pc(p, current_user)
        matching_pcs == SelectSeq(pipe_configs, Match)
    IN IF Len(matching_pcs) = 0
       THEN Raise("NoAccessibleConfiguration", TRUE, marker, existing_matching_pcs)
       ELSE IF Len(matching_pcs) > 1
       THEN Raise("AmbiguousConfiguration", TRUE, marker, existing_matching_pcs)
       ELSE PipelineConfiguration(matching_pcs[1][field], TRUE, marker,
                                  existing_matching_pcs)

\* the branch taken when TANK_CURRENT_PC is not set
resolve_generic(existing_matching_pcs, marker) ==
    IF Len(existing_matching_pcs) = 1
    THEN PipelineConfiguration(existing_matching_pcs[1], FALSE, marker,
                               existing_matching_pcs)
    ELSE resolve_from_shotgun(existing_matching_pcs, marker)

\* from the back-mapping file found at marker to the result
resolve_from_mapping(marker, env) ==
    LET f == config_file(marker)
        current_os_pcs == [i \in DOMAIN f.data |-> f.data[i][platform]]
        existing_matching_pcs == SelectSeq(current_os_pcs, path_exists)
    IN IF f.kind = "corrupt" THEN Raise("CorruptConfig", FALSE, marker, <<>>)
       ELSE IF f.kind = "empty" THEN Raise("TypeError", FALSE, marker, <<>>)
       ELSE IF \E i \in DOMAIN current_os_pcs : current_os_pcs[i] = NONE
       THEN Raise("TypeError", FALSE, marker, <<>>)
       ELSE IF ~IsNone(env)
       THEN resolve_from_env(Val(env), existing_matching_pcs, marker)
       ELSE resolve_generic(existing_matching_pcs, marker)

\* from_path without the test for a configuration root
from_path_walks_always(path, env) ==
    LET p == effective_path(path)
        config_dir == walk_up(p)
    IN IF p = NONE THEN Raise("PathNotFound", FALSE, NONE, <<>>)
       ELSE IF config_dir = NONE THEN Raise("NotInProject", FALSE, NONE, <<>>)
       ELSE resolve_from_mapping(config_dir, env)

from_path(path, env) ==
    LET p == effective_path(path)
        config_dir == walk_up(p)
    IN IF p = NONE THEN Raise("PathNotFound", FALSE, NONE, <<>>)
       ELSE IF pc_config_exists(p) THEN PipelineConfiguration(p, FALSE, NONE, <<>>)
       ELSE IF config_dir = NONE THEN Raise("NotInProject", FALSE, NONE, <<>>)
       ELSE resolve_from_mapping(config_dir, env)

----------------------------------------------------------------------------
(* The worlds from_path is run in *)

UserIds == 1..MaxUserId

\* a PipelineConfiguration entity of the tracking service
PCEntity(id, code, project, d, users) ==
    [id |-> id, code |-> code, project |-> project, users |-> users,
     mac_path |-> Str("darwin", d), windows_path |-> Str("win32", d),
     linux_path |-> Str("linux2", d)]

\* users fields: absent, empty, or the users with the ids given
UsersOf(ids) == Some([i \in DOMAIN ids |-> [type |-> "HumanUser", id |-> ids[i]]])

\* a row with no path for the platform pl
RowWithout(pl, d) == [RowOf(d) EXCEPT ![pl] = NONE]

NoCall == [name |-> "none"]
NoResult == Outcome("none", NONE, FALSE, NONE, <<>>)

PathInputs ==
    {Str(platform, d) : d \in {PROJ, SHOT, PCA, PCB, SHOT \o <<"new">>, <<"gone", "new">>}}
    \cup {Str(platform, PCA) \o <<Sep(platform)>>}

InitPath ==
    /\ platform \in Platforms
    /\ environ \in {<<>>, Some(Str(platform, PCA)), Some(Str(platform, PCA) \o <<" ">>),
                    Some(Str(platform, PCB))}
    /\ \E extra \in SUBSET {PCA, PCB} :
          /\ disk = {ROOT, PROJ, SHOT} \cup extra
          /\ \E m \in SUBSET {SHOT} : pcMarker = extra \cup m
    /\ \E c1 \in {MissingFile, CorruptFile, EmptyFile, DataFile(<<>>),
                  DataFile(<<RowOf(PCA)>>), DataFile(<<RowOf(PCB)>>),
                  DataFile(<<RowOf(PCA), RowOf(PCB)>>),
                  DataFile(<<RowOf(PCB), RowOf(PCA)>>),
                  DataFile(<<RowOf(PCA), RowOf(PCA)>>),
                  DataFile(<<RowOf(PCA), RowWithout(platform, PCB)>>)},
          c2 \in {MissingFile, DataFile(<<RowOf(PCB)>>)} :
          mapFiles = [d \in {PROJ, ROOT} |-> IF d = PROJ THEN c1 ELSE c2]
    /\ installLoc = <<>>
    /\ pcFiles = <<>>
    /\ sgPCs = <<PCEntity(1, "Primary", 1, PCA, <<>>),
                 PCEntity(2, "Dev", 1, PCB, UsersOf(<<1, 2>>))>>
    /\ sgLinks = <<>>
    /\ sgUser = Some([type |-> "HumanUser", id |-> 1])
    /\ call = NoCall
    /\ result = NoResult

\* The worlds of the branch that asks the tracking service: the entities,
\* their users and the current user vary.
InitShotgun ==
    /\ platform \in Platforms
    /\ environ \in {<<>>, Some(Str(platform, PCA))}
    /\ \E extra \in SUBSET {PCA, PCB} :
          /\ disk = {ROOT, PROJ, SHOT} \cup extra
          /\ pcMarker = extra
    /\ \E c1 \in {DataFile(<<>>), DataFile(<<RowOf(PCA), RowOf(PCB)>>),
                  DataFile(<<RowOf(PCB), RowOf(PCA)>>)} :
          mapFiles = [d \in {PROJ, ROOT} |-> IF d = PROJ THEN c1 ELSE MissingFile]
    /\ installLoc = <<>>
    /\ pcFiles = <<>>
    /\ \E ua \in {<<>>, UsersOf(<<>>), UsersOf(<<1>>)},
          ub \in {UsersOf(<<>>), UsersOf(<<MaxUserId>>), UsersOf(<<1, MaxUserId>>)} :
          LET eA == PCEntity(1, "Primary", 1, PCA, ua)
              eB == PCEntity(2, "Dev", 1, PCB, ub)
          IN sgPCs \in {<<eA, eB>>, <<eB, eA>>, <<eB>>}
    /\ sgLinks = <<>>
    /\ sgUser \in {<<>>} \cup {Some([type |-> "HumanUser", id |-> u]) : u \in UserIds}
    /\ call = NoCall
    /\ result = NoResult

\* a call of from_path
FromPath ==
    \E path \in PathInputs :
        /\ call' = [name |-> "from_path", path |-> path]
        /\ result' = from_path(path, environ)
        /\ UNCHANGED world

Next == FromPath

Spec == InitPath /\ [][Next]_vars

SpecShotgun == InitShotgun /\ [][Next]_vars

----------------------------------------------------------------------------
(* from_entity *)

\* constants.PRIMARY_PIPELINE_CONFIG_NAME
PRIMARY_PIPELINE_CONFIG_NAME == "Primary"

\* what from_entity returns or raises; args are the values put in the message
EntityOutcome(status, root, args) == [status |-> status, root |-> root, args |-> args]

\* sg.find_one(entity_type, [["id", "is", entity_id]], ["project"]): <<>>
\* when there is no such entity, else the entity with its project link,
\* itself <<>> when the entity has none
sg_find_one(entity_type, entity_id) ==
    IF <<entity_type, entity_id>> \in DOMAIN sgLinks
    THEN Some([type |-> entity_type, id |-> entity_id,
               project |-> sgLinks[<<entity_type, entity_id>>]])
    ELSE <<>>

\* the file <s>/config/core/install_location.yml
install_location_file(s) ==
    IF FsKey(platform, s) \in DOMAIN installLoc
    THEN installLoc[FsKey(platform, s)] ELSE MissingFile

\* get_pc_registered_location: err is the error raised, "" when none, and
\* loc the path registered for the running platform, NONE when there is none
get_pc_registered_location(pipeline_config_root_path) ==
    LET f == install_location_file(pipeline_config_root_path)
    IN IF f.kind = "missing" THEN [err |-> "IOError", loc |-> NONE]
       ELSE IF f.kind = "corrupt" THEN [err |-> "CorruptConfig", loc |-> NONE]
       ELSE IF f.kind = "empty" THEN [err |-> "AttributeError", loc |-> NONE]
       ELSE IF platform = "linux2" THEN [err |-> "", loc |-> f.data.Linux]
       ELSE IF platform = "win32" THEN [err |-> "", loc |-> f.data.Windows]
       ELSE IF platform = "darwin" THEN [err |-> "", loc |-> f.data.Darwin]
       ELSE [err |-> "UnsupportedPlatform", loc |-> NONE]

\* the clean-up with the test for a trailing backslash left out
entity_curr_pc_path_keeps_backslash(raw) ==
    IF endswith(raw, " ") THEN DropLast(raw) ELSE raw

\* the clean-up of os.environ["TANK_CURRENT_PC"] in from_entity
entity_curr_pc_path(raw) ==
    LET a == IF endswith(raw, " ") THEN DropLast(raw) ELSE raw
    IN IF endswith(a, "\\") THEN DropLast(a) ELSE a

\* the index of the first TRUE of a sequence of booleans, 0 when there is none
FirstIndex(hits) ==
    IF \E i \in DOMAIN hits : hits[i]
    THEN CHOOSE i \in DOMAIN hits : hits[i] /\ \A j \in 1..(i - 1) : ~hits[j]
    ELSE 0

\* the primary configuration taken without leaving the loop at the first one
resolve_primary_last(pipe_configs, proj) ==
    LET IsPrimary(pc) == pc.code = PRIMARY_PIPELINE_CONFIG_NAME
        k == IF \E i \in DOMAIN pipe_configs : IsPrimary(pipe_configs[i])
             THEN CHOOSE i \in DOMAIN pipe_configs :
                    IsPrimary(pipe_configs[i])
                    /\ \A j \in DOMAIN pipe_configs : IsPrimary(pipe_configs[j]) => j <= i
             ELSE 0
        current_os_path == pipe_configs[k][platform_lookup[platform]]
    IN IF k = 0
       THEN EntityOutcome("NoPrimaryConfiguration", NONE,
                          <<proj.name, PRIMARY_PIPELINE_CONFIG_NAME>>)
       ELSE IF current_os_path = NONE
       THEN EntityOutcome("PlatformPathMissing", NONE, <<proj.name>>)
       ELSE IF ~path_exists(current_os_path)
       THEN EntityOutcome("PathNotFound", NONE, <<proj.name, current_os_path>>)
       ELSE EntityOutcome("ok", current_os_path, <<>>)

\* the branch of the generic tank command: the primary configuration
resolve_primary(pipe_configs, proj) ==
    LET IsPrimary(pc) == pc.code = PRIMARY_PIPELINE_CONFIG_NAME
        k == FirstIndex([i \in DOMAIN pipe_configs |-> IsPrimary(pipe_configs[i])])
        current_os_path == pipe_configs[k][platform_lookup[platform]]
    IN IF k = 0
       THEN EntityOutcome("NoPrimaryConfiguration", NONE,
                          <<proj.name, PRIMARY_PIPELINE_CONFIG_NAME>>)
       ELSE IF current_os_path = NONE
       THEN EntityOutcome("PlatformPathMissing", NONE, <<proj.name>>)
       ELSE IF ~path_exists(current_os_path)
       THEN EntityOutcome("PathNotFound", NONE, <<proj.name, current_os_path>>)
       ELSE EntityOutcome("ok", current_os_path, <<>>)

\* the entities compared with the cleaned path instead of the registered one
resolve_current_pc_raw(raw, pipe_configs, proj, entity_type, entity_id) ==
    LET curr_pc_path == entity_curr_pc_path(raw)
        reg == get_pc_registered_location(curr_pc_path)
        IsCurrent(pc) == pc[platform_lookup[platform]] = curr_pc_path
        k == FirstIndex([i \in DOMAIN pipe_configs |-> IsCurrent(pipe_configs[i])])
    IN IF reg.err # "" THEN EntityOutcome(reg.err, NONE, <<curr_pc_path>>)
       ELSE IF reg.loc = NONE
       THEN EntityOutcome("UnregisteredLocation", NONE, <<curr_pc_path>>)
       ELSE IF k = 0
       THEN EntityOutcome("ConfigurationNotInProject", NONE,
                          <<entity_type, entity_id, proj.name, curr_pc_path>>)
       ELSE EntityOutcome("ok", pipe_configs[k][platform_lookup[platform]], <<>>)

\* the branch of the tank command of one configuration
resolve_current_pc(raw, pipe_configs, proj, entity_type, entity_id) ==
    LET curr_pc_path == entity_curr_pc_path(raw)
        reg == get_pc_registered_location(curr_pc_path)
        pc_registered_path == reg.loc
        IsRegistered(pc) == pc[platform_lookup[platform]] = pc_registered_path
        k == FirstIndex([i \in DOMAIN pipe_configs |-> IsRegistered(pipe_configs[i])])
    IN IF reg.err # "" THEN EntityOutcome(reg.err, NONE, <<curr_pc_path>>)
       ELSE IF pc_registered_path = NONE
       THEN EntityOutcome("UnregisteredLocation", NONE, <<curr_pc_path>>)
       ELSE IF k = 0
       THEN EntityOutcome("ConfigurationNotInProject", NONE,
                          <<entity_type, entity_id, proj.name, curr_pc_path>>)
       ELSE EntityOutcome("ok", pipe_configs[k][platform_lookup[platform]], <<>>)

\* the project of an entity that is a project: a link without a name
project_of_project(entity_id) == [type |-> "Project", id |-> entity_id, name |-> NONE]

from_entity(entity_type, entity_id, env) ==
    LET e == sg_find_one(entity_type, entity_id)
        proj == IF entity_type = "Project" THEN project_of_project(entity_id)
                ELSE Val(Val(e).project)
        pipe_configs == sg_find_project(proj)
    IN IF IsNone(e)
       THEN EntityOutcome("EntityNotFound", NONE, <<entity_type, entity_id>>)
       ELSE IF entity_type # "Project" /\ IsNone(Val(e).project)
       THEN EntityOutcome("EntityNotLinked", NONE, <<entity_type, entity_id>>)
       ELSE IF Len(pipe_configs) = 0
       THEN EntityOutcome("NoConfigurationsForProject", NONE,
                          <<entity_type, entity_id, proj.name>>)
       ELSE IF IsNone(env) THEN resolve_primary(pipe_configs, proj)
       ELSE resolve_current_pc(Val(env), pipe_configs, proj, entity_type, entity_id)

----------------------------------------------------------------------------
(* The worlds from_entity is run in *)

\* a directory that is a link to, or a drive mapping of, the configuration pcA
LNK == <<"lnkA">>

\* install_location.yml of a configuration registered in directory d
InstallLocationOf(d) ==
    DataFile([Linux |-> Str("linux2", d), Windows |-> Str("win32", d),
              Darwin |-> Str("darwin", d)])

\* install_location.yml with no entry for the platform pl
InstallLocationWithout(pl, d) ==
    DataFile([Linux |-> IF pl = "linux2" THEN NONE ELSE Str("linux2", d),
              Windows |-> IF pl = "win32" THEN NONE ELSE Str("win32", d),
              Darwin |-> IF pl = "darwin" THEN NONE ELSE Str("darwin", d)])

\* an entity with no path for the platform pl
PCEntityWithout(pl, id, code, project, d, users) ==
    [PCEntity(id, code, project, d, users) EXCEPT ![platform_lookup[pl]] = NONE]

ProjectLink(id, name) == Some([type |-> "Project", id |-> id, name |-> name])

\* projects 1 (with configurations) and 2 (with none), shots 1 and 4 linked
\* to them, shot 2 linked to nothing; there is no shot 3
EntityLinks ==
    (<<"Project", 1>> :> <<>>) @@ (<<"Project", 2>> :> <<>>)
    @@ (<<"Shot", 1>> :> ProjectLink(1, <<"demo">>))
    @@ (<<"Shot", 2>> :> <<>>)
    @@ (<<"Shot", 4>> :> ProjectLink(2, <<"other">>))

EntityInputs == {<<"Project", 1>>, <<"Project", 2>>, <<"Shot", 1>>, <<"Shot", 2>>,
                 <<"Shot", 3>>, <<"Shot", 4>>}

\* the lists of configurations of project 1 the service may hold
ConfigLists ==
    LET pA == PCEntity(1, "Primary", 1, PCA, <<>>)
        pB == PCEntity(2, "Primary", 1, PCB, <<>>)
        dA == PCEntity(3, "Dev", 1, PCA, <<>>)
        dB == PCEntity(4, "Dev", 1, PCB, <<>>)
        pN == PCEntityWithout(platform, 5, "Primary", 1, PCA, <<>>)
        dN == PCEntityWithout(platform, 6, "Dev", 1, PCB, <<>>)
    IN {<<>>, <<pA>>, <<dB, pA>>, <<pA, pB>>, <<pB, pA>>, <<dA>>, <<dA, dB>>,
        <<pN, pA>>, <<dN, pB>>}

InitEntity ==
    /\ platform \in Platforms
    /\ environ \in {<<>>, Some(Str(platform, LNK)), Some(Str(platform, LNK) \o <<" ">>),
                    Some(Str(platform, PCB))}
    /\ \E extra \in SUBSET {PCA, PCB} : disk = {ROOT, LNK} \cup extra
    /\ pcMarker = disk \ {ROOT}
    /\ mapFiles = <<>>
    /\ \E c \in {MissingFile, CorruptFile, InstallLocationOf(PCA),
                 InstallLocationOf(LNK), InstallLocationWithout(platform, PCA)} :
          \E moved \in BOOLEAN :
          installLoc = [d \in disk \ {ROOT} |->
                           IF d = LNK THEN c
                           ELSE IF d = PCB /\ moved THEN InstallLocationOf(PCA)
                           ELSE InstallLocationOf(d)]
    /\ pcFiles = <<>>
    /\ sgPCs \in ConfigLists
    /\ sgLinks = EntityLinks
    /\ sgUser = <<>>
    /\ call = NoCall
    /\ result = NoResult

\* a call of from_entity
FromEntity ==
    \E ent \in EntityInputs :
        /\ call' = [name |-> "from_entity", entity_type |-> ent[1], entity_id |-> ent[2]]
        /\ result' = from_entity(ent[1], ent[2], environ)
        /\ UNCHANGED world

NextEntity == FromEntity

SpecEntity == InitEntity /\ [][NextEntity]_vars

----------------------------------------------------------------------------
(* The worlds the clean-up of TANK_CURRENT_PC is run in *)

\* what may follow the path of a configuration in TANK_CURRENT_PC
Trailers ==
    {<<>>, <<" ">>, <<"\\">>, <<"/">>, <<"\\", " ">>, <<"/", " ">>,
     <<" ", "\\">>, <<" ", "/">>}

\* Both configurations are on disk and registered where they are; the
\* variable holds the path of one of them followed by a trailer.
InitCleanup ==
    /\ platform \in Platforms
    /\ \E d \in {PCA, PCB}, t \in Trailers : environ = Some(Str(platform, d) \o t)
    /\ disk = {ROOT, PROJ, SHOT, PCA, PCB}
    /\ pcMarker = {PCA, PCB}
    /\ \E c1 \in {DataFile(<<RowOf(PCA)>>), DataFile(<<RowOf(PCB), RowOf(PCA)>>),
                  DataFile(<<RowOf(PCB)>>)} :
          mapFiles = [d \in {PROJ, ROOT} |-> IF d = PROJ THEN c1 ELSE MissingFile]
    /\ installLoc = [d \in {PCA, PCB} |-> InstallLocationOf(d)]
    /\ pcFiles = <<>>
    /\ sgPCs \in {<<PCEntity(1, "Primary", 1, PCA, <<>>)>>,
                  <<PCEntity(4, "Dev", 1, PCB, <<>>), PCEntity(1, "Primary", 1, PCA, <<>>)>>,
                  <<PCEntity(4, "Dev", 1, PCB, <<>>)>>}
    /\ sgLinks = EntityLinks
    /\ sgUser = <<>>
    /\ call = NoCall
    /\ result = NoResult

NextCleanup == FromPath \/ FromEntity

SpecCleanup == InitCleanup /\ [][NextCleanup]_vars

----------------------------------------------------------------------------
(* StorageConfigurationMapping *)

\* the rows with new_item added whether it is there or not
with_new_item_always(data, new_item) == Append(data, new_item)

\* the rows with new_item added unless it is among them
with_new_item(data, new_item) ==
    IF new_item \in Range(data) THEN data ELSE Append(data, new_item)

\* What open(file, "wt") followed by a yaml.dump that does not complete may
\* leave in the file: nothing, some of the first rows, a row cut short, or
\* all of the rows.
PartialWrites(data) ==
    {EmptyFile, CorruptFile, DataFile(data)}
    \cup {DataFile(SubSeq(data, 1, k)) : k \in 1..(Len(data) - 1)}

\* add_pipeline_configuration on a file with content f: the status returned
\* or raised and the content the file is left with, for every way the write
\* may go
add_pipeline_configuration(f, mac_path, win_path, linux_path) ==
    LET new_item == Row(mac_path, win_path, linux_path)
        data == with_new_item(f.data, new_item)
    IN IF f.kind = "corrupt" THEN {[status |-> "CorruptConfig", file |-> f]}
       ELSE IF f.kind = "empty" THEN {[status |-> "TypeError", file |-> f]}
       ELSE {[status |-> "ok", file |-> DataFile(data)]}
            \cup {[status |-> "WriteFailure", file |-> f]}
            \cup {[status |-> st, file |-> w] :
                    st \in {"WriteFailure", "Killed"}, w \in PartialWrites(data)}

\* get_pipeline_configs on a file with content f
get_pipeline_configs(f) ==
    IF f.kind = "corrupt" THEN [status |-> "CorruptConfig", paths |-> <<>>]
    ELSE IF f.kind = "empty" THEN [status |-> "TypeError", paths |-> <<>>]
    ELSE [status |-> "ok", paths |-> [i \in DOMAIN f.data |-> f.data[i][platform]]]

----------------------------------------------------------------------------
(* The worlds the storage mapping is run in *)

\* the rows add_pipeline_configuration is called with
RowInputs ==
    {Row(m, w, l) : m \in {NONE, Str("darwin", PCA)},
                    w \in {Str("win32", PCA), Str("win32", PCB)},
                    l \in {Str("linux2", PCA), Str("linux2", PCB)}}

\* The file of the project root is missing, or was written by hand with
\* one row twice.
InitMapping ==
    /\ platform \in Platforms
    /\ environ = <<>>
    /\ disk = {ROOT, PROJ}
    /\ pcMarker = {}
    /\ \E c \in {MissingFile, DataFile(<<RowOf(PCA), RowOf(PCA)>>)} :
          mapFiles = [d \in {PROJ, ROOT} |-> IF d = PROJ THEN c ELSE MissingFile]
    /\ installLoc = <<>>
    /\ pcFiles = <<>>
    /\ sgPCs = <<>>
    /\ sgLinks = <<>>
    /\ sgUser = <<>>
    /\ call = NoCall
    /\ result = NoResult

\* a call of StorageConfigurationMapping(PROJ).add_pipeline_configuration
AddPipelineConfiguration ==
    \E r \in RowInputs :
        \E o \in add_pipeline_configuration(mapFiles[PROJ], r.darwin, r.win32, r.linux2) :
            /\ Len(o.file.data) <= MaxRows
            /\ call' = [name |-> "add_pipeline_configuration", row |-> r,
                        before |-> mapFiles[PROJ]]
            /\ result' = [status |-> o.status]
            /\ mapFiles' = [mapFiles EXCEPT ![PROJ] = o.file]
            /\ UNCHANGED <<platform, environ, disk, pcMarker, installLoc, pcFiles,
                           sgPCs, sgLinks, sgUser>>

\* a call of StorageConfigurationMapping(PROJ).get_pipeline_configs
GetPipelineConfigs ==
    /\ call' = [name |-> "get_pipeline_configs"]
    /\ result' = get_pipeline_configs(mapFiles[PROJ])
    /\ UNCHANGED world

NextMapping == AddPipelineConfiguration \/ GetPipelineConfigs

SpecMapping == InitMapping /\ [][NextMapping]_vars

----------------------------------------------------------------------------
(* from_path, one turn of its loop at a time *)

\* the test that ends the loop at the top, never passed
topped_out_never(cur_path, parent_path) == FALSE

\* parent_path == cur_path: the walk topped out
topped_out(cur_path, parent_path) == parent_path = cur_path

\* os.path.exists(config_path) for the cur_path of this turn
back_mapping_exists(cur_path) == config_file(cur_path).kind # "missing"

\* from_path is in its loop, about to test cur_path
Walking(cur_path) == [status |-> "walking", cur_path |-> cur_path]

InLoop == result.status = "walking"

\* from_path is called and runs up to its loop
WalkBegin ==
    \E path \in PathInputs :
        LET p == effective_path(path)
        IN /\ ~InLoop
           /\ call' = [name |-> "from_path", path |-> path]
           /\ result' = IF p = NONE THEN Raise("PathNotFound", FALSE, NONE, <<>>)
                        ELSE IF pc_config_exists(p)
                        THEN PipelineConfiguration(p, FALSE, NONE, <<>>)
                        ELSE Walking(p)
           /\ UNCHANGED world

\* the back-mapping file is under cur_path: the loop is left and from_path
\* runs to its end
WalkFound ==
    /\ InLoop
    /\ back_mapping_exists(result.cur_path)
    /\ result' = resolve_from_mapping(result.cur_path, environ)
    /\ UNCHANGED <<world, call>>

\* no file under cur_path, which is its own parent: from_path raises
WalkTop ==
    /\ InLoop
    /\ ~back_mapping_exists(result.cur_path)
    /\ topped_out(result.cur_path, dirname(platform, result.cur_path))
    /\ result' = Raise("NotInProject", FALSE, NONE, <<>>)
    /\ UNCHANGED <<world, call>>

\* no file under cur_path: the next turn tests its parent
WalkStep ==
    /\ InLoop
    /\ ~back_mapping_exists(result.cur_path)
    /\ ~topped_out(result.cur_path, dirname(platform, result.cur_path))
    /\ result' = Walking(dirname(platform, result.cur_path))
    /\ UNCHANGED <<world, call>>

\* Worlds with a back-mapping file in any of /proj/shot, /proj and /, each
\* naming another configuration or unparsable.
InitWalk ==
    /\ platform \in Platforms
    /\ environ \in {<<>>, Some(Str(platform, PCA))}
    /\ \E extra \in SUBSET {PCA, PCB} :
          /\ disk = {ROOT, PROJ, SHOT} \cup extra
          /\ pcMarker = extra
    /\ mapFiles \in [{SHOT, PROJ, ROOT} ->
                        {MissingFile, CorruptFile, DataFile(<<RowOf(PCA)>>),
                         DataFile(<<RowOf(PCB)>>)}]
    /\ installLoc = <<>>
    /\ pcFiles = <<>>
    /\ sgPCs = <<PCEntity(1, "Primary", 1, PCA, <<>>),
                 PCEntity(2, "Dev", 1, PCB, UsersOf(<<1, 2>>))>>
    /\ sgLinks = <<>>
    /\ sgUser = Some([type |-> "HumanUser", id |-> 1])
    /\ call = NoCall
    /\ result = NoResult

NextWalk == WalkBegin \/ WalkFound \/ WalkTop \/ WalkStep

\* A call that is in its loop goes on running.
SpecWalk ==
    InitWalk /\ [][NextWalk]_vars /\ WF_vars(WalkFound \/ WalkTop \/ WalkStep)

----------------------------------------------------------------------------
(* The constructor of PipelineConfiguration *)

\* constants.PRIMARY_STORAGE_NAME
PRIMARY_STORAGE_NAME == "primary"

\* The files of the configuration in directory d other than
\* install_location.yml: info tells how the core installed in the
\* configuration (install/core/info.yml) compares with the running code,
\* roots is config/core/roots.yml and config is
\* config/core/pipeline_configuration.yml.
PCFiles(info, roots, config) == [info |-> info, roots |-> roots, config |-> config]

NoPCFiles == PCFiles("none", MissingFile, MissingFile)

pc_files(s) ==
    IF FsKey(platform, s) \in DOMAIN pcFiles
    THEN pcFiles[FsKey(platform, s)] ELSE NoPCFiles

\* one entry of roots.yml; an entry written by hand may lack a key
RootsEntry(mac, linux, win) == [mac_path |-> mac, linux_path |-> linux, windows_path |-> win]

RootsKeys == {"mac_path", "linux_path", "windows_path"}

\* s[:-1] when s is a string that is not empty and ends with c
strip_trailing(s, c) ==
    IF s # NONE /\ s # <<>> /\ endswith(s, c) THEN DropLast(s) ELSE s

\* the body of the loop over the storages, for a complete entry
normalize_entry(e) ==
    [e EXCEPT !.mac_path = strip_trailing(e.mac_path, "/"),
              !.linux_path = strip_trailing(e.linux_path, "/"),
              !.windows_path = strip_trailing(e.windows_path, "\\")]

\* __load_roots_meatadata on a roots.yml with content f: the error raised,
\* "" when none, and the roots returned
load_roots_meatadata(f) ==
    IF f.kind = "missing" THEN [err |-> "IOError", roots |-> <<>>]
    ELSE IF f.kind = "corrupt" THEN [err |-> "CorruptConfig", roots |-> <<>>]
    ELSE IF f.kind = "empty" THEN [err |-> "TypeError", roots |-> <<>>]
    ELSE IF PRIMARY_STORAGE_NAME \notin DOMAIN f.data
    THEN [err |-> "MissingPrimaryStorage", roots |-> <<>>]
    ELSE IF \E s \in DOMAIN f.data : ~(RootsKeys \subseteq DOMAIN f.data[s])
    THEN [err |-> "KeyError", roots |-> <<>>]
    ELSE [err |-> "", roots |-> [s \in DOMAIN f.data |-> normalize_entry(f.data[s])]]

\* __load_config_metadata on a pipeline_configuration.yml with content f
load_config_metadata(f) ==
    IF f.kind = "missing" THEN [err |-> "IOError", project_name |-> NONE]
    ELSE IF f.kind = "corrupt" THEN [err |-> "CorruptConfig", project_name |-> NONE]
    ELSE IF f.kind = "empty" THEN [err |-> "AttributeError", project_name |-> NONE]
    ELSE IF f.data.project_name = NONE THEN [err |-> "MissingField", project_name |-> NONE]
    ELSE [err |-> "", project_name |-> f.data.project_name]

\* what the constructor returns or raises: constructed tells whether there
\* is a handle, roots is its _roots
Handle(status, constructed, roots, project_name, registered) ==
    [status |-> status, constructed |-> constructed, roots |-> roots,
     project_name |-> project_name, registered |-> registered]

NoHandle(status) == Handle(status, FALSE, <<>>, NONE, NONE)

\* PipelineConfiguration.__init__
PipelineConfiguration_init(pipeline_configuration_path) ==
    LET fs == pc_files(pipeline_configuration_path)
        r == load_roots_meatadata(fs.roots)
        c == load_config_metadata(fs.config)
        l == get_pc_registered_location(pipeline_configuration_path)
    IN IF fs.info = "newer" THEN NoHandle("VersionMismatch")
       ELSE IF r.err # "" THEN NoHandle(r.err)
       ELSE IF c.err # "" THEN NoHandle(c.err)
       ELSE IF l.err # "" THEN NoHandle(l.err)
       ELSE Handle("ok", TRUE, r.roots, c.project_name, l.loc)

----------------------------------------------------------------------------
(* The worlds the constructor is run in *)

\* n times the character c
SepRun(c, n) == [i \in 1..n |-> c]

\* What a path of roots.yml may end with: up to MaxTrailing separators of
\* its platform, or one separator of the other kind.
RootsTrailers(pl) ==
    {SepRun(Sep(pl), n) : n \in 0..MaxTrailing}
    \cup {<<(IF pl = "win32" THEN "/" ELSE "\\")>>}

\* the paths an entry of roots.yml may hold for the platform pl
RootsPaths(pl) == {NONE} \cup {<<Sep(pl), "studio">> \o t : t \in RootsTrailers(pl)}

RootsEntries ==
    {RootsEntry(m, l, w) : m \in RootsPaths("darwin"), l \in RootsPaths("linux2"),
                           w \in RootsPaths("win32")}

\* a second storage: with a separator after every path, or lacking a key
TexturesEntries ==
    {RootsEntry(<<"/", "tex", "/">>, <<"/", "tex", "/">>, <<"\\", "tex", "\\">>),
     [mac_path |-> <<"/", "tex", "/">>, linux_path |-> NONE]}

\* the documents roots.yml may hold
RootsDocuments ==
    {[s \in {PRIMARY_STORAGE_NAME} |-> e] : e \in RootsEntries}
    \cup {[s \in {PRIMARY_STORAGE_NAME, "textures"} |->
             IF s = PRIMARY_STORAGE_NAME THEN e ELSE t] :
          e \in RootsEntries, t \in TexturesEntries}
    \cup {[s \in {"textures"} |-> t] : t \in TexturesEntries}
    \cup {[s \in {} |-> NONE]}

RootsFiles == {MissingFile, CorruptFile, EmptyFile} \cup {DataFile(d) : d \in RootsDocuments}

ConfigFiles == {DataFile([project_name |-> <<"demo">>]), DataFile([project_name |-> NONE])}

\* The configuration pcA is on disk with its files; pcB is not.
InitRoots ==
    /\ platform \in Platforms
    /\ environ = <<>>
    /\ disk = {ROOT, PCA}
    /\ pcMarker = {PCA}
    /\ mapFiles = <<>>
    /\ installLoc = [d \in {PCA} |-> InstallLocationOf(PCA)]
    /\ \E info \in {"none", "newer"}, roots \in RootsFiles, config \in ConfigFiles :
          pcFiles = [d \in {PCA} |-> PCFiles(info, roots, config)]
    /\ sgPCs = <<>>
    /\ sgLinks = <<>>
    /\ sgUser = <<>>
    /\ call = NoCall
    /\ result = NoResult

\* a call of PipelineConfiguration(path)
Construct ==
    \E d \in {PCA, PCB} :
        /\ call' = [name |-> "PipelineConfiguration", path |-> Str(platform, d)]
        /\ result' = PipelineConfiguration_init(Str(platform, d))
        /\ UNCHANGED world

NextRoots == Construct

SpecRoots == InitRoots /\ [][NextRoots]_vars

----------------------------------------------------------------------------
(* Properties of from_path *)

\* the entity field holding the path for the running platform
CurrentOsField == platform_lookup[platform]

\* the last call was from_path and it read a back-mapping file that parsed
\* and whose rows all have a path for the running platform
ReadMapping ==
    /\ call.name = "from_path"
    /\ result.marker # NONE
    /\ result.status \notin {"CorruptConfig", "TypeError"}

\* the back-mapping paths for the running platform that exist on disk, read
\* off the file system
CandidateSet ==
    LET rows == mapFiles[FsKey(platform, result.marker)].data
    IN {rows[i][platform] : i \in DOMAIN rows} \cap {Str(platform, d) : d \in disk}

\* the entities the service returns for the candidates, by position
ReturnedEntities == {i \in DOMAIN sgPCs : sgPCs[i][CurrentOsField] \in CandidateSet}

\* eligibility as the specification words it
Eligible(e) ==
    \/ e.users = <<>>
    \/ e.users = << <<>> >>
    \/ /\ sgUser # <<>>
       /\ \E j \in DOMAIN e.users[1] : e.users[1][j].id = sgUser[1].id

EligibleEntities == {i \in ReturnedEntities : Eligible(sgPCs[i])}

\* C1: with TANK_CURRENT_PC unset and more than one candidate on disk,
\* from_path succeeds with the path of the one eligible entity, raises
\* NoAccessibleConfiguration when none is eligible and AmbiguousConfiguration
\* when several are.
C1_Eligibility ==
    (ReadMapping /\ environ = <<>> /\ Cardinality(CandidateSet) > 1) =>
        /\ result.sg
        /\ Cardinality(EligibleEntities) = 0 =>
              result.status = "NoAccessibleConfiguration"
        /\ Cardinality(EligibleEntities) > 1 =>
              result.status = "AmbiguousConfiguration"
        /\ Cardinality(EligibleEntities) = 1 =>
              /\ result.status = "ok"
              /\ \A i \in EligibleEntities : result.root = sgPCs[i][CurrentOsField]

\* candidates [A, B], a current user authorized only for B: the result is B
C1_Witness ==
    /\ ReadMapping /\ environ = <<>>
    /\ result.cands = <<Str(platform, PCA), Str(platform, PCB)>>
    /\ sgUser # <<>>
    /\ \E i \in ReturnedEntities : ~Eligible(sgPCs[i])
    /\ result.status = "ok"
    /\ result.root = Str(platform, PCB)

\* C2, as claimed: with TANK_CURRENT_PC unset and no candidate on disk
\* from_path raises NoConfigurationsForProject without asking the service.
C2_ZeroCandidates ==
    (ReadMapping /\ environ = <<>> /\ CandidateSet = {}) =>
        /\ result.status = "NoConfigurationsForProject"
        /\ ~result.sg

\* s without one trailing c
StripOne(s, c) == IF s # <<>> /\ s[Len(s)] = c THEN SubSeq(s, 1, Len(s) - 1) ELSE s

\* C3: with TANK_CURRENT_PC set and the path no configuration root,
\* from_path succeeds with the cleaned value exactly when it is a candidate,
\* raises ConfigurationMismatch otherwise and never asks the service.
C3_ActiveIdentity ==
    (ReadMapping /\ environ # <<>>) =>
        LET cleaned == StripOne(StripOne(environ[1], " "), "\\")
        IN /\ ~result.sg
           /\ cleaned \in CandidateSet =>
                 result.status = "ok" /\ result.root = cleaned
           /\ cleaned \notin CandidateSet =>
                 result.status = "ConfigurationMismatch"

\* the value ended in a space, it was cleaned and found among two candidates
C3_Witness ==
    /\ ReadMapping /\ environ # <<>>
    /\ environ[1] # result.root
    /\ Cardinality(CandidateSet) = 2
    /\ result.status = "ok"

\* the nearest directory at or above d that holds a back-mapping file
RECURSIVE NearestMapping(_)
NearestMapping(d) ==
    IF d \in DOMAIN mapFiles /\ mapFiles[d].kind # "missing" THEN d
    ELSE IF d = <<>> THEN NoDir
    ELSE NearestMapping(SubSeq(d, 1, Len(d) - 1))

\* The last call resolved an existing path p with success, p lies in a
\* project tree whose back-mapping file has the configuration root R as its
\* only candidate on disk.
ResolvedInTreeOf(R) ==
    LET p == FsKey(platform, call.path)
        m == NearestMapping(p)
        rows == mapFiles[m].data
    IN /\ call.name = "from_path"
       /\ p \in disk
       /\ m # NoDir
       /\ mapFiles[m].kind = "data"
       /\ {rows[i][platform] : i \in DOMAIN rows} \cap {Str(platform, d) : d \in disk}
              = {Str(platform, R)}
       /\ R \in pcMarker
       /\ result.status = "ok"

\* from_path gives the root R for the last path, for R itself and for the
\* root it returned
SameRoot(R) ==
    /\ result.root = Str(platform, R)
    /\ from_path(Str(platform, R), environ).status = "ok"
    /\ from_path(Str(platform, R), environ).root = result.root
    /\ from_path(result.root, environ).status = "ok"
    /\ from_path(result.root, environ).root = result.root

\* C8, as claimed: every existing path in the project tree of R that
\* resolves, resolves to R, and so do R and the root returned.
C8_AnyPath ==
    \A R \in Dirs : ResolvedInTreeOf(R) => SameRoot(R)

\* C8, amended: every existing path in the project tree of R that is not
\* itself another configuration root and resolves, resolves to R, and so do
\* R and the root returned.
C8_Idempotent ==
    \A R \in Dirs :
        (ResolvedInTreeOf(R)
         /\ (FsKey(platform, call.path) \in pcMarker => FsKey(platform, call.path) = R))
        => SameRoot(R)

\* a data directory below the project root resolved to the configuration pcA
\* while TANK_CURRENT_PC was set
C8_Witness ==
    /\ ResolvedInTreeOf(PCA)
    /\ call.path = Str(platform, SHOT)
    /\ SHOT \notin pcMarker
    /\ environ # <<>>
    /\ result.root = Str(platform, PCA)

----------------------------------------------------------------------------
(* Properties of from_entity *)

\* the last call was from_entity for an entity that exists and has a project
EntityResolved ==
    /\ call.name = "from_entity"
    /\ <<call.entity_type, call.entity_id>> \in DOMAIN sgLinks
    /\ (call.entity_type = "Project"
        \/ sgLinks[<<call.entity_type, call.entity_id>>] # <<>>)

\* the id of the project of the entity of the last call
CallProject ==
    IF call.entity_type = "Project" THEN call.entity_id
    ELSE sgLinks[<<call.entity_type, call.entity_id>>][1].id

\* the configurations of that project, by position in service order
ProjectConfigs == {i \in DOMAIN sgPCs : sgPCs[i].project = CallProject}

Primaries == {i \in ProjectConfigs : sgPCs[i].code = "Primary"}

\* C5: with TANK_CURRENT_PC unset and configurations in the project,
\* from_entity looks at the first configuration named Primary only: none ->
\* NoPrimaryConfiguration, no path for the platform -> PlatformPathMissing,
\* path not on disk -> PathNotFound, else success with that path.
C5_PrimaryOrder ==
    (EntityResolved /\ environ = <<>> /\ ProjectConfigs # {}) =>
        IF Primaries = {} THEN result.status = "NoPrimaryConfiguration"
        ELSE LET first == CHOOSE i \in Primaries : \A j \in Primaries : i <= j
                 path == sgPCs[first][CurrentOsField]
             IN IF path = NONE THEN result.status = "PlatformPathMissing"
                ELSE IF path \notin {Str(platform, d) : d \in disk}
                THEN result.status = "PathNotFound"
                ELSE result.status = "ok" /\ result.root = path

\* two configurations are named Primary, both on disk, and the first was taken
C5_Witness ==
    /\ EntityResolved /\ environ = <<>>
    /\ Cardinality(Primaries) = 2
    /\ \A i \in Primaries : sgPCs[i][CurrentOsField] \in {Str(platform, d) : d \in disk}
    /\ result.status = "ok"
    /\ result.root = sgPCs[1][CurrentOsField]

\* the path install_location.yml of directory d registers for the platform
RegisteredAt(d) ==
    IF platform = "linux2" THEN installLoc[d].data.Linux
    ELSE IF platform = "win32" THEN installLoc[d].data.Windows
    ELSE installLoc[d].data.Darwin

\* C6: with TANK_CURRENT_PC set, from_entity maps the cleaned path to its
\* registered location: none -> UnregisteredLocation, no configuration of
\* the project at that location -> ConfigurationNotInProject, else success
\* with the recorded path of that configuration, on disk or not.
C6_RegisteredLocation ==
    (EntityResolved /\ environ # <<>> /\ ProjectConfigs # {}) =>
        LET cleaned == StripOne(StripOne(environ[1], " "), "\\")
            d == FsKey(platform, cleaned)
        IN (d \in DOMAIN installLoc /\ installLoc[d].kind = "data") =>
             IF RegisteredAt(d) = NONE THEN result.status = "UnregisteredLocation"
             ELSE IF \A i \in ProjectConfigs : sgPCs[i][CurrentOsField] # RegisteredAt(d)
             THEN result.status = "ConfigurationNotInProject"
             ELSE result.status = "ok" /\ result.root = RegisteredAt(d)

\* the call succeeded with a root that is neither the environment path nor
\* on disk
C6_Witness ==
    /\ EntityResolved /\ environ # <<>>
    /\ result.status = "ok"
    /\ result.root # StripOne(StripOne(environ[1], " "), "\\")
    /\ FsKey(platform, result.root) \notin disk

\* C7, as claimed: when the project has no configuration, from_entity raises
\* NoConfigurationsForProject and the message has the entity type, the
\* entity id and the name of the project.
C7_NoConfigurations ==
    (EntityResolved /\ ProjectConfigs = {}) =>
        /\ result.status = "NoConfigurationsForProject"
        /\ result.args[1] = call.entity_type
        /\ result.args[2] = call.entity_id
        /\ result.args[3] # NONE

----------------------------------------------------------------------------
(* Properties of the clean-up of TANK_CURRENT_PC *)

\* what the last call gives when TANK_CURRENT_PC holds the string s
ResultWith(s) ==
    IF call.name = "from_path" THEN from_path(call.path, Some(s))
    ELSE from_entity(call.entity_type, call.entity_id, Some(s))

\* the last call ran with TANK_CURRENT_PC holding the path of the
\* configuration in directory d followed by trailer
CalledWith(d, trailer) ==
    /\ call.name \in {"from_path", "from_entity"}
    /\ environ = Some(Str(platform, d) \o trailer)

\* C4, as claimed: on every platform a value that is the path of a
\* configuration followed by a space, by the separator of the platform or
\* by both, resolves as the path itself does.
C4_OsSeparator ==
    \A d \in {PCA, PCB}, t \in {<<" ">>, <<Sep(platform)>>, <<Sep(platform), " ">>,
                               <<" ", Sep(platform)>>} :
        CalledWith(d, t) => result = ResultWith(Str(platform, d))

\* C4, amended: on every platform a value that is the path of a
\* configuration followed by a space, by a backslash or by a backslash and
\* then a space, resolves as the path itself does.
C4_Backslash ==
    \A d \in {PCA, PCB}, t \in {<<" ">>, <<"\\">>, <<"\\", " ">>} :
        CalledWith(d, t) => result = ResultWith(Str(platform, d))

\* off windows, from_path succeeded with the path of pcA while the variable
\* held that path followed by a backslash and a space
C4_Witness ==
    /\ CalledWith(PCA, <<"\\", " ">>)
    /\ call.name = "from_path"
    /\ platform = "linux2"
    /\ result.status = "ok"
    /\ result.marker # NONE
    /\ result.root = Str(platform, PCA)

----------------------------------------------------------------------------
(* Properties of the storage mapping *)

\* row r is structurally among the rows
Stored(rows, r) ==
    \E i \in DOMAIN rows :
        /\ rows[i].darwin = r.darwin
        /\ rows[i].win32 = r.win32
        /\ rows[i].linux2 = r.linux2

\* the pairs of positions that hold structurally equal rows
DuplicatePairs(rows) ==
    {pr \in (DOMAIN rows) \X (DOMAIN rows) : pr[1] < pr[2] /\ rows[pr[1]] = rows[pr[2]]}

\* C9: an add that completes leaves the rows as they were when the row is
\* stored already, and else appends it as the last row; no new duplicate
\* appears.
C9_AppendOnce ==
    (call.name = "add_pipeline_configuration" /\ result.status = "ok") =>
        LET old == call.before.data
            now == mapFiles[PROJ]
        IN /\ now.kind = "data"
           /\ Stored(old, call.row) => now.data = old
           /\ ~Stored(old, call.row) =>
                 /\ Len(now.data) = Len(old) + 1
                 /\ now.data[Len(now.data)] = call.row
                 /\ \A i \in DOMAIN old : now.data[i] = old[i]
           /\ Cardinality(DuplicatePairs(now.data)) = Cardinality(DuplicatePairs(old))

\* a row that differs from the one stored row in one path only was added
\* as the second row
C9_Witness ==
    /\ call.name = "add_pipeline_configuration" /\ result.status = "ok"
    /\ call.before.kind = "data"
    /\ Len(call.before.data) = 1
    /\ call.before.data[1].darwin = call.row.darwin
    /\ call.before.data[1].win32 = call.row.win32
    /\ call.before.data[1].linux2 # call.row.linux2
    /\ mapFiles[PROJ].data = <<call.before.data[1], call.row>>

\* C10, as claimed: an add that fails or is interrupted leaves in the file
\* the complete rows of before or the complete new rows, and after a failed
\* write get_pipeline_configs still reads the rows of before.
C10_WriteReplace ==
    (call.name = "add_pipeline_configuration" /\ result.status \in {"WriteFailure", "Killed"}) =>
        LET old == call.before.data
            now == mapFiles[PROJ]
        IN /\ now.kind \in {"missing", "data"}
           /\ now.data \in {old, with_new_item(old, call.row)}
           /\ result.status = "WriteFailure" =>
                 get_pipeline_configs(now) = get_pipeline_configs(call.before)

----------------------------------------------------------------------------
(* Properties of the constructor *)

\* the last call was of the constructor
Constructing == call.name = "PipelineConfiguration"

\* the files the last call of the constructor read
ReadFiles == pc_files(call.path)

\* the separator a path under key k is written with
SeparatorOf(k) == IF k = "windows_path" THEN "\\" ELSE "/"

\* C11, as claimed: after roots.yml is loaded no mac_path or linux_path of
\* any storage ends with "/" and no windows_path ends with "\", however many
\* separators the stored path ended with; a path that is null stays null
\* and a path that ends with no separator is unchanged.
C11_NoTrailingSeparator ==
    (Constructing /\ result.constructed) =>
        LET stored == ReadFiles.roots.data
        IN \A s \in DOMAIN result.roots : \A k \in RootsKeys :
              /\ ~endswith(result.roots[s][k], SeparatorOf(k))
              /\ stored[s][k] = NONE => result.roots[s][k] = NONE
              /\ ~endswith(stored[s][k], SeparatorOf(k)) =>
                    result.roots[s][k] = stored[s][k]

\* the roots.yml read parsed and has no entry for the primary storage
ParsedWithoutPrimary ==
    LET f == ReadFiles.roots
    IN \/ f.kind = "empty"
       \/ f.kind = "data" /\ PRIMARY_STORAGE_NAME \notin DOMAIN f.data

\* C12, as claimed: when the constructor gets to load a roots.yml that
\* parses and has no entry for the primary storage, whatever else the file
\* holds, an empty document included, it fails with MissingPrimaryStorage
\* and there is no handle.
C12_MissingPrimary ==
    (Constructing /\ ReadFiles.info # "newer" /\ ParsedWithoutPrimary) =>
        /\ result.status = "MissingPrimaryStorage"
        /\ ~result.constructed

----------------------------------------------------------------------------
(* Properties of from_path: rows without a path, the path worked on, the   *)
(* walk and the root                                                       *)

\* the directory the last call of from_path worked on: the one its path
\* names, else the parent of it, NoDir when neither is on disk
EffectiveDir ==
    LET p == FsKey(platform, call.path)
    IN IF p \in disk THEN p
       ELSE IF p # NoDir /\ p # <<>> /\ SubSeq(p, 1, Len(p) - 1) \in disk
       THEN SubSeq(p, 1, Len(p) - 1)
       ELSE NoDir

\* the last call of from_path had to walk up from the directory it worked on
Walked ==
    /\ call.name = "from_path"
    /\ EffectiveDir # NoDir
    /\ EffectiveDir \notin pcMarker

\* the rows of the back-mapping file nearest to the directory worked on
NearestRows == mapFiles[NearestMapping(EffectiveDir)].data

\* the last call of from_path got to a back-mapping file that parsed as rows
\* of which at least one has no path for the running platform
ReadRowWithoutPath ==
    /\ Walked
    /\ NearestMapping(EffectiveDir) # NoDir
    /\ mapFiles[NearestMapping(EffectiveDir)].kind = "data"
    /\ \E i \in DOMAIN NearestRows : NearestRows[i][platform] = NONE

\* the paths of the rows for the running platform that are on disk, in file
\* order
ExistingInOrder(rows) ==
    LET OnDisk(s) == s # NONE /\ FsKey(platform, s) \in disk
    IN SelectSeq([i \in DOMAIN rows |-> rows[i][platform]], OnDisk)

\* C13, as claimed: rows with no path for the running platform are left out
\* of the candidates, which are the paths on disk in file order, and
\* from_path goes on with them instead of raising an untyped error.
C13_AbsentFiltered ==
    ReadRowWithoutPath =>
        /\ result.status # "TypeError"
        /\ result.cands = ExistingInOrder(NearestRows)

\* C14: from_path raises PathNotFound exactly when neither the path nor its
\* parent is on disk; when the directory worked on holds
\* config/core/pipeline_configuration.yml the call returns that directory
\* as the root with no back-mapping file read and the service not asked,
\* whatever TANK_CURRENT_PC holds.
C14_EffectivePath ==
    call.name = "from_path" =>
        /\ result.status = "PathNotFound" <=> EffectiveDir = NoDir
        /\ (EffectiveDir # NoDir /\ EffectiveDir \in pcMarker) =>
              /\ result.status = "ok"
              /\ result.root = Str(platform, EffectiveDir)
              /\ result.marker = NONE
              /\ result.cands = <<>>
              /\ ~result.sg

\* a path not on disk whose parent is a configuration root, below a project
\* whose only candidate is pcB, with TANK_CURRENT_PC naming pcB: the root is
\* the parent
C14_Witness ==
    /\ call.name = "from_path"
    /\ call.path = Str(platform, SHOT \o <<"new">>)
    /\ SHOT \in pcMarker
    /\ PCB \in disk
    /\ environ = Some(Str(platform, PCB))
    /\ mapFiles[PROJ] = DataFile(<<RowOf(PCB)>>)
    /\ result.status = "ok"
    /\ result.root = Str(platform, SHOT)

\* directory d and the directories above it, up to the root
Ancestors(d) == {SubSeq(d, 1, n) : n \in 0..Len(d)}

\* directory d holds a back-mapping file
HasMapping(d) == d \in DOMAIN mapFiles /\ mapFiles[d].kind # "missing"

\* In its loop from_path is at the directory worked on or above it, with no
\* back-mapping file in any directory it has left behind; out of the loop
\* it has raised NotInProject exactly when no directory up to the root holds
\* a file, and else has read the file of the nearest directory that holds
\* one, and that file decides the result.
WalkStopsAtNearest ==
    Walked =>
        LET near == NearestMapping(EffectiveDir)
        IN IF InLoop
           THEN LET cur == FsKey(platform, result.cur_path)
                IN /\ cur \in Ancestors(EffectiveDir)
                   /\ \A d \in Ancestors(EffectiveDir) : Len(d) > Len(cur) => ~HasMapping(d)
           ELSE /\ result.status = "NotInProject" <=> near = NoDir
                /\ near # NoDir =>
                      /\ result.marker = Str(platform, near)
                      /\ result.status = "CorruptConfig" <=> mapFiles[near].kind = "corrupt"
                      /\ mapFiles[near].kind = "data" =>
                            result.cands = ExistingInOrder(mapFiles[near].data)
                      /\ result = from_path(call.path, environ)

\* C15: the walk up of from_path always ends; it tests the directory worked
\* on and then each parent in turn, stops at the nearest directory holding
\* tank/config/<back mapping file> and reads that file only, and raises
\* NotInProject exactly when no directory up to and including the root
\* holds one.
C15_AncestorWalk ==
    /\ []WalkStopsAtNearest
    /\ InLoop ~> ~InLoop

\* from /proj/shot the walk passed to /proj, whose file names pcA, and
\* returned pcA though the file of / names pcB
C15_Witness ==
    /\ call.name = "from_path"
    /\ call.path = Str(platform, SHOT)
    /\ mapFiles[SHOT] = MissingFile
    /\ mapFiles[PROJ] = DataFile(<<RowOf(PCA)>>)
    /\ mapFiles[ROOT] = DataFile(<<RowOf(PCB)>>)
    /\ {PCA, PCB} \subseteq disk
    /\ environ = <<>>
    /\ result.status = "ok"
    /\ result.marker = Str(platform, PROJ)
    /\ result.root = Str(platform, PCA)

\* C16: the root from_path returns is the directory worked on, which then
\* holds config/core/pipeline_configuration.yml, or one of the paths of the
\* nearest back-mapping file that are on disk, the tracking service
\* returning only entities whose path is among those it was asked for.
C16_RootProvenance ==
    (call.name = "from_path" /\ result.status = "ok") =>
        \/ /\ result.marker = NONE
           /\ EffectiveDir \in pcMarker
           /\ result.root = Str(platform, EffectiveDir)
        \/ /\ result.marker # NONE
           /\ EffectiveDir \notin pcMarker
           /\ result.marker = Str(platform, NearestMapping(EffectiveDir))
           /\ result.root \in Range(ExistingInOrder(NearestRows))
           /\ FsKey(platform, result.root) \in disk

\* two candidates on disk, the service asked: the root is the path of the
\* entity the service returned second
C16_Witness ==
    /\ call.name = "from_path"
    /\ result.status = "ok"
    /\ result.sg
    /\ Len(result.cands) = 2
    /\ Len(sgPCs) = 2
    /\ result.root = sgPCs[2][CurrentOsField]
    /\ result.root \in Range(result.cands)

====
